---- MODULE Spec2Model ----
(***************************************************************************)
(* N-ary tree (NLeaf<T, N>, instantiated as NTree<int, 5>): the node heap,  *)
(* GenerateTree, Walk and its callers (~NLeaf, GetMaxChildrenSubtree,       *)
(* Serialize) and Deserialize, as state machines over one heap.             *)
(*                                                                         *)
(* A node pointer is an index into heap (allocation order), 0 is nullptr.   *)
(* A text line is a sequence of one-character strings.                      *)
(***************************************************************************)
EXTENDS Integers, Sequences, FiniteSets, TLC

\* ---------------------------------------------------------------- constants

\* Template argument N of NTree<int, 5>: the number of child slots of a node.
N == 5

\* uint16_t arithmetic (mDepth, mChildIndex, mChildrenAmount, skipDeep) is modulo 2^16.
TwoTo16 == 65536

\* int is 32 bit: std::stoi reports out_of_range beyond it.
IntMax == 2147483647

\* rand() % 255
RandMod == 255

\* 2 + (rand() % 4)
MinChildren == 2
ChildSpread == 4

\* Serialize: at most 32 tabs for the depth.
MaxTabs == 32

\* main: tree->Serialize(std::cout, 6, true)
MainSkipDeep == 6

\* ------------------------------------------------------------------- bounds

\* Largest number of nodes of a tree built by attaching children by hand.
MaxNodes == 4

\* Largest number of nodes of a hand-built tree of one value, for Walk and
\* the destructor.
MaxWalked == 5

\* Largest maxLeaves handed to GenerateTree (the smallest is -1).
MaxLeaves == 4

\* Largest number of lines of an input text read by Deserialize.
MaxLines == 7

\* Largest number of records of an input of records alone read by Deserialize.
MaxRecords == 8

\* Largest maxLeaves handed to GenerateTree when nothing but GenerateTree runs.
MaxGenerated == 6

\* Largest number of lines of an input text whose decoded tree is written and
\* read again.
MaxText == 6

\* Largest explicit depth limit handed to Serialize.
MaxSkipDeep == 2

\* Largest K of the Walk callback that stops on its K-th call.
MaxStop == 3

\* ------------------------------------------------------------------- inputs

\* Values of hand-built nodes (T = int).
Values == {-3, 12}

\* Values rand() % 255 can give: the two ends of 0 .. 254.
RandValues == {0, RandMod - 1}

\* uint16_t skipDeep = -1: the default argument of Serialize.
DefaultSkipDeep == (-1) % TwoTo16

\* ------------------------------------------------------------------ strings

Digits == <<"0", "1", "2", "3", "4", "5", "6", "7", "8", "9">>

IsDigit(ch) == \E d \in 1..10 : Digits[d] = ch

DigitValue(ch) == (CHOOSE d \in 1..10 : Digits[d] = ch) - 1

\* isspace
IsSpace(ch) == ch \in {" ", "\t"}

RECURSIVE NatToStr(_)
NatToStr(n) ==
  IF n < 10 THEN <<Digits[n + 1]>>
  ELSE NatToStr(n \div 10) \o <<Digits[(n % 10) + 1]>>

\* operator<< of an int that drops the sign.
IntToStrUnsigned(n) == NatToStr(IF n < 0 THEN -n ELSE n)

\* operator<< of an int (and of a uint16_t): decimal, '-' for a negative value.
IntToStr(n) == IF n < 0 THEN <<"-">> \o NatToStr(-n) ELSE NatToStr(n)

\* std::string::find(':'): the 1-based position of the first ':' or 0 (npos).
RECURSIVE FindFrom(_, _)
FindFrom(s, i) ==
  IF i > Len(s) THEN 0
  ELSE IF s[i] = ":" THEN i
  ELSE FindFrom(s, i + 1)

FindColon(s) == FindFrom(s, 1)

RECURSIVE SkipSpaces(_)
SkipSpaces(s) == IF s # <<>> /\ IsSpace(Head(s)) THEN SkipSpaces(Tail(s)) ELSE s

\* The value of the longest prefix of digits of s, continuing from acc,
\* and the number of digits read.
RECURSIVE ReadDigits(_, _, _)
ReadDigits(s, acc, cnt) ==
  IF s # <<>> /\ IsDigit(Head(s))
  THEN ReadDigits(Tail(s), acc * 10 + DigitValue(Head(s)), cnt + 1)
  ELSE [val |-> acc, cnt |-> cnt]

(* std::stoi: skips leading white space, reads an optional sign and the     *)
(* longest run of digits, ignores what follows; throws invalid_argument    *)
(* when there is no digit and out_of_range when the value is no int.       *)
stoi(s) ==
  LET t    == SkipSpaces(s)
      neg  == t # <<>> /\ Head(t) = "-"
      sgn  == t # <<>> /\ Head(t) \in {"-", "+"}
      body == IF sgn THEN Tail(t) ELSE t
      r    == ReadDigits(body, 0, 0)
      v    == IF neg THEN -r.val ELSE r.val
  IN  IF r.cnt = 0 THEN [ok |-> FALSE, val |-> 0]
      ELSE IF v > IntMax \/ v < -IntMax - 1 THEN [ok |-> FALSE, val |-> 0]
      ELSE [ok |-> TRUE, val |-> v]

\* count copies of "\t"
RECURSIVE Tabs(_)
Tabs(count) == IF count = 0 THEN <<>> ELSE <<"\t">> \o Tabs(count - 1)

\* -------------------------------------------------------------------- state

VARIABLES
  pc,                 \* the position of the program
  heap,               \* the NLeaf objects created so far, in allocation order
  tree,               \* main: NTree<int, 5>* tree (0 is nullptr)
  result,             \* GenerateTree: NTree<int, 5>* result
  toGenerate,         \* GenerateTree: the queue of leaf_generation_data_t
  maxLeaves,          \* GenerateTree: its argument
  leavesGenerated,    \* GenerateTree: the counter
  toPopulate,         \* Deserialize: the queue of leaf_generation_data_t
  stream,             \* Deserialize: the lines of the input read or known so far
  pos,                \* Deserialize: the number of lines read
  good,               \* Deserialize: stream.good()
  failed,             \* Deserialize: the value parser threw
  frames,             \* the active calls of Walk, innermost last: [self, collected]
  walkSelf,           \* the node the outermost Walk was called on
  includeSelf,        \* Walk: its flag
  stopAt,             \* the test callback returns true on its stopAt-th call (0: never)
  visited,            \* the nodes the callback of the outermost Walk was called on, in order
  out,                \* Serialize: the lines written to the output stream
  skipDeep,           \* Serialize: its depth limit
  pretty,             \* Serialize: its flag
  maxChildren,        \* main: int maxChildren
  maxChildrenSubtree, \* main: NTree<int, 5>* maxChildrenSubtree
  released,           \* how many times each node's memory was released
  ub                  \* the kinds of undefined behaviour that have happened

genVars    == <<result, toGenerate, maxLeaves, leavesGenerated>>
decVars    == <<toPopulate, stream, pos, good, failed>>
walkVars   == <<frames, walkSelf, includeSelf, stopAt, visited>>
serVars    == <<out, skipDeep, pretty>>
searchVars == <<maxChildren, maxChildrenSubtree>>
delVars    == <<released, ub>>

vars == <<pc, heap, tree, genVars, decVars, walkVars, serVars, searchVars, delVars>>

\* --------------------------------------------------------------------- NLeaf

\* A constructor that starts a node at depth 1.
NewLeafAtDepthOne(value) ==
  [mValue |-> value, mDepth |-> 1, mChildIndex |-> 0, mChildrenAmount |-> 0,
   mChildren |-> [c \in 1..N |-> 0]]

\* NLeaf(T value): depth, index and child count 0, every slot nullptr.
NewLeaf(value) ==
  [mValue |-> value, mDepth |-> 0, mChildIndex |-> 0, mChildrenAmount |-> 0,
   mChildren |-> [c \in 1..N |-> 0]]

\* NLeaf(): the value is T() = 0.
DefaultLeaf == NewLeaf(0)

\* A SetNChild that leaves the child count of the parent as it is.
SetNChildNoCount(h, parent, index, leaf) ==
  [h EXCEPT ![parent].mChildren[index + 1] = leaf,
            ![leaf].mChildIndex = index,
            ![leaf].mDepth = (h[parent].mDepth + 1) % TwoTo16]

(* parent->SetNChild(index, leaf) in heap h. The array has N slots: with    *)
(* index >= N the slot written lies outside it (see Overrun), the child's   *)
(* index and depth and the parent's count are written all the same.        *)
SetNChild(h, parent, index, leaf) ==
  LET slots == IF index < N
               THEN [h[parent].mChildren EXCEPT ![index + 1] = leaf]
               ELSE h[parent].mChildren
  IN  [h EXCEPT ![parent].mChildren = slots,
                ![parent].mChildrenAmount = (@ + 1) % TwoTo16,
                ![leaf].mChildIndex = index,
                ![leaf].mDepth = (h[parent].mDepth + 1) % TwoTo16]

\* *output = leaf, for output = GetNChild(slot) of node: &mChildren[slot].
Store(h, output, leaf) ==
  IF output.node # 0 /\ output.slot < N
  THEN [h EXCEPT ![output.node].mChildren[output.slot + 1] = leaf]
  ELSE h

\* 16-bit words a pointer's bytes can leave in a neighbouring object.
JunkWords == {0, TwoTo16 - 1}

(* A pointer written to mChildren[index], index >= N, lands behind the      *)
(* node: in the allocator's bookkeeping or padding (victim = 0), or on the  *)
(* first eight bytes of another node (mValue, mDepth, mChildIndex): the low *)
(* bytes of the pointer become its value and depth, the high bytes, zero    *)
(* in a user-space pointer, its child index.                                *)
Overrun(h, victim, junk) ==
  IF victim = 0 THEN h
  ELSE [h EXCEPT ![victim].mValue = junk,
                 ![victim].mDepth = junk,
                 ![victim].mChildIndex = 0]

\* The first mChildrenAmount slots of leaf, in index order: what the loop
\* for (c = 0; c < leaf->mChildrenAmount; c++) collected.push(mChildren[c]) pushes.
\* A count above N reads behind the array; the model stops at N.
ChildrenOf(h, leaf) ==
  LET k == IF h[leaf].mChildrenAmount < N THEN h[leaf].mChildrenAmount ELSE N
  IN  [c \in 1..k |-> h[leaf].mChildren[c]]

\* leaf_generation_data_t; output.node = 0 is the caller's root pointer.
Request(node, c) == [output |-> [node |-> node, slot |-> c], parent |-> node, childIndex |-> c]

RootRequest == Request(0, 0)

\* The requests of a loop that ends one child early.
RequestsForOneLess(leaf, childrenAmount) ==
  [c \in 1..(childrenAmount - 1) |-> Request(leaf, c - 1)]

\* Requests pushed from the last child index down to 0.
RequestsForDownwards(leaf, childrenAmount) ==
  [c \in 1..childrenAmount |-> Request(leaf, childrenAmount - c)]

\* The requests pushed by for (c = 0; c < childrenAmount; c++).
RequestsFor(leaf, childrenAmount) == [c \in 1..childrenAmount |-> Request(leaf, c - 1)]

\* ------------------------------------------------------------ initial state

\* The values the variables of an operation hold while it does not run.
Idle ==
  /\ result = 0 /\ toGenerate = <<>> /\ maxLeaves = 0 /\ leavesGenerated = 0
  /\ toPopulate = <<>> /\ stream = <<>> /\ pos = 0 /\ good = TRUE
  /\ failed = FALSE
  /\ frames = <<>> /\ walkSelf = 0 /\ includeSelf = TRUE /\ stopAt = 0
  /\ visited = <<>>
  /\ out = <<>> /\ skipDeep = DefaultSkipDeep /\ pretty = FALSE
  /\ maxChildren = 0 /\ maxChildrenSubtree = 0
  /\ released = <<>> /\ ub = {}

\* main starts with no tree; "main" builds one, "load" finds the file ntree.nt.
InitAt(where) == pc = where /\ heap = <<>> /\ tree = 0 /\ Idle

Init == InitAt("main")

\* ----------------------------------------------------------- building a tree

\* tree = new NTree<int, 5>(value): the root of a hand-built tree.
NewTree(value) ==
  /\ pc = "main"
  /\ heap' = <<NewLeaf(value)>>
  /\ tree' = 1
  /\ released' = <<0>>
  /\ pc' = "ready"
  /\ UNCHANGED <<genVars, decVars, walkVars, serVars, searchVars, ub>>

\* parent->SetNChild(parent->GetChildAmount(), new NLeaf<int, 5>(value)):
\* the next child of a node that has a free slot, in a tree of fewer than
\* most nodes.
AttachLeaf(value, most) ==
  /\ pc = "ready"
  /\ Len(heap) < most
  /\ \E parent \in 1..Len(heap) :
       /\ heap[parent].mChildrenAmount < N
       /\ heap' = SetNChild(Append(heap, NewLeaf(value)), parent,
                            heap[parent].mChildrenAmount, Len(heap) + 1)
  /\ released' = Append(released, 0)
  /\ UNCHANGED <<pc, tree, genVars, decVars, walkVars, serVars, searchVars, ub>>

\* main: std::cin >> maxLeaves; GenerateTree(maxLeaves) up to its loop, for
\* a number typed in of at most most.
StartGenerateTree(most) ==
  /\ pc = "main"
  /\ \E m \in -1..most : maxLeaves' = m
  /\ result' = 0
  /\ toGenerate' = <<RootRequest>>
  /\ leavesGenerated' = 0
  /\ pc' = "generate"
  /\ UNCHANGED <<heap, tree, decVars, walkVars, serVars, searchVars, delVars>>

\* if (leavesGenerated >= maxLeaves) break;
LimitReached(count, limit) == count >= limit

(* One iteration of the loop of GenerateTree: the front request's node is   *)
(* created and attached; at the limit the loop is left and result returned  *)
(* to main, else the node's requests are queued and the front one popped.   *)
GenerateLeaf ==
  /\ pc = "generate"
  /\ toGenerate # <<>>
  /\ \E leafValue \in RandValues,
        childrenAmount \in MinChildren..(MinChildren + ChildSpread - 1) :
       LET leafData == Head(toGenerate)
           leaf     == Len(heap) + 1
           created  == Store(Append(heap, NewLeaf(leafValue)), leafData.output, leaf)
           attached == IF leafData.parent # 0
                       THEN SetNChild(created, leafData.parent, leafData.childIndex, leaf)
                       ELSE created
           root     == IF leafData.output.node = 0 THEN leaf ELSE result
           queue    == Tail(toGenerate \o RequestsFor(leaf, childrenAmount))
       IN  /\ heap' = attached
           /\ released' = Append(released, 0)
           /\ result' = root
           /\ leavesGenerated' = leavesGenerated + 1
           /\ IF LimitReached(leavesGenerated + 1, maxLeaves)
              THEN /\ toGenerate' = toGenerate
                   /\ tree' = root
                   /\ pc' = "generated"
              ELSE /\ toGenerate' = queue
                   /\ tree' = IF queue = <<>> THEN root ELSE tree
                   /\ pc' = IF queue = <<>> THEN "generated" ELSE "generate"
  /\ UNCHANGED <<maxLeaves, decVars, walkVars, serVars, searchVars, ub>>

\* A tree stands ready: hand-built so far, or returned by GenerateTree.
Ready == pc \in {"ready", "generated"}

\* ---------------------------------------------------------------------- Walk

\* A queue that starts with the node itself whatever the flag says.
WalkQueueWithSelf(h, self, withSelf) == <<self>>

\* Walk up to its loop: the queue holds this, or this node's children.
WalkQueue(h, self, withSelf) == IF withSelf THEN <<self>> ELSE ChildrenOf(h, self)

\* The queue after a visit that forgets the children of the node taken.
AfterVisitNoChildren(h, collected) == Tail(collected)

\* A stack in the place of the queue: the children go to the front.
AfterVisitDepthFirst(h, collected) == ChildrenOf(h, Head(collected)) \o Tail(collected)

\* The queue after collected.front() is taken, popped and its children pushed.
AfterVisit(h, collected) == Tail(collected) \o ChildrenOf(h, Head(collected))

Frame(self, collected) == [self |-> self, collected |-> collected]

Top == frames[Len(frames)]

\* The frames with the innermost queue replaced.
WithTop(collected) == [frames EXCEPT ![Len(frames)].collected = collected]

\* A call of Walk on any node, with a callback that only counts its calls and
\* returns true on call number k (k = 0: never).
StartWalk ==
  /\ Ready
  /\ \E self \in 1..Len(heap), withSelf \in BOOLEAN, k \in 0..MaxStop :
       /\ frames' = <<Frame(self, WalkQueue(heap, self, withSelf))>>
       /\ walkSelf' = self
       /\ includeSelf' = withSelf
       /\ stopAt' = k
  /\ visited' = <<>>
  /\ pc' = "walk"
  /\ UNCHANGED <<heap, tree, genVars, decVars, serVars, searchVars, delVars>>

\* The counting callback: true on call number k.
ShouldStop(count, k) == count = k

\* A loop that goes on whatever the callback returned.
IgnoresStop(shouldStop) == FALSE

\* if (shouldStop) break;
Broke(shouldStop) == shouldStop

\* One iteration of the loop of Walk; break leaves the loop and Walk.
WalkVisit ==
  /\ pc = "walk"
  /\ Top.collected # <<>>
  /\ visited' = Append(visited, Head(Top.collected))
  /\ IF Broke(ShouldStop(Len(visited) + 1, stopAt))
     THEN frames' = <<>> /\ pc' = "walked"
     ELSE frames' = WithTop(AfterVisit(heap, Top.collected)) /\ pc' = pc
  /\ UNCHANGED <<heap, tree, genVars, decVars, walkSelf, includeSelf, stopAt,
                 serVars, searchVars, delVars>>

\* while (collected.size() > 0) fails: Walk returns.
WalkReturn ==
  /\ pc = "walk"
  /\ Top.collected = <<>>
  /\ frames' = <<>>
  /\ pc' = "walked"
  /\ UNCHANGED <<heap, tree, genVars, decVars, walkSelf, includeSelf, stopAt, visited,
                 serVars, searchVars, delVars>>

\* -------------------------------------------------------------------- ~NLeaf

\* What touching released memory can do: find the old contents, or crash.
Outcomes == {"stale", "crash"}

\* delete tree: ~NLeaf runs Walk on the root, itself left out.
DeleteTree ==
  /\ Ready
  /\ frames' = <<Frame(tree, WalkQueue(heap, tree, FALSE))>>
  /\ walkSelf' = tree
  /\ includeSelf' = FALSE
  /\ visited' = <<>>
  /\ pc' = "destroy"
  /\ UNCHANGED <<heap, tree, genVars, decVars, stopAt, serVars, searchVars, delVars>>

(* One iteration of the loop of Walk under ~NLeaf: the children of the node *)
(* taken are pushed (a read of the node), then the callback deletes it,    *)
(* which runs ~NLeaf, and so Walk, on that node before its memory goes.     *)
DestroyVisit ==
  /\ pc = "destroy"
  /\ Top.collected # <<>>
  /\ LET leaf == Head(Top.collected)
     IN  /\ visited' = IF Len(frames) = 1 THEN Append(visited, leaf) ELSE visited
         /\ IF released[leaf] = 0
            THEN /\ frames' = Append(WithTop(AfterVisit(heap, Top.collected)),
                                     Frame(leaf, WalkQueue(heap, leaf, FALSE)))
                 /\ pc' = pc
                 /\ ub' = ub
            ELSE /\ ub' = ub \cup {"read after release"}
                 /\ \E outcome \in Outcomes :
                      IF outcome = "stale"
                      THEN /\ frames' = Append(WithTop(AfterVisit(heap, Top.collected)),
                                               Frame(leaf, WalkQueue(heap, leaf, FALSE)))
                           /\ pc' = pc
                      ELSE frames' = <<>> /\ pc' = "crashed"
  /\ UNCHANGED <<heap, tree, genVars, decVars, walkSelf, includeSelf, stopAt,
                 serVars, searchVars, released>>

(* The loop of Walk under ~NLeaf ends: the destructor returns and delete    *)
(* releases the node's memory; the deleting callback of the caller's Walk   *)
(* returns false.                                                          *)
DestroyReturn ==
  /\ pc = "destroy"
  /\ Top.collected = <<>>
  /\ released' = [released EXCEPT ![Top.self] = @ + 1]
  /\ IF released[Top.self] = 0
     THEN /\ ub' = ub
          /\ frames' = SubSeq(frames, 1, Len(frames) - 1)
          /\ pc' = IF Len(frames) = 1 THEN "destroyed" ELSE pc
     ELSE /\ ub' = ub \cup {"double release"}
          /\ \E outcome \in Outcomes :
               IF outcome = "stale"
               THEN /\ frames' = SubSeq(frames, 1, Len(frames) - 1)
                    /\ pc' = IF Len(frames) = 1 THEN "destroyed" ELSE pc
               ELSE frames' = <<>> /\ pc' = "crashed"
  /\ UNCHANGED <<heap, tree, genVars, decVars, walkSelf, includeSelf, stopAt, visited,
                 serVars, searchVars>>

\* ------------------------------------------------------ GetMaxChildrenSubtree

\* main: maxChildrenSubtree = nullptr; maxChildren = 0;
\* tree->GetMaxChildrenSubtree(maxChildren, maxChildrenSubtree) up to the loop of Walk.
StartSearch ==
  /\ Ready
  /\ maxChildren' = 0
  /\ maxChildrenSubtree' = 0
  /\ frames' = <<Frame(tree, WalkQueue(heap, tree, TRUE))>>
  /\ walkSelf' = tree
  /\ includeSelf' = TRUE
  /\ visited' = <<>>
  /\ pc' = "search"
  /\ UNCHANGED <<heap, tree, genVars, decVars, stopAt, serVars, delVars>>

\* if (amount > output)
Larger(amount, output) == amount > output

\* One iteration of the loop of Walk with the callback of GetMaxChildrenSubtree.
SearchVisit ==
  /\ pc = "search"
  /\ Top.collected # <<>>
  /\ LET leaf   == Head(Top.collected)
         amount == heap[leaf].mChildrenAmount
     IN  /\ visited' = Append(visited, leaf)
         /\ frames' = WithTop(AfterVisit(heap, Top.collected))
         /\ IF Larger(amount, maxChildren)
            THEN maxChildren' = amount /\ maxChildrenSubtree' = leaf
            ELSE UNCHANGED searchVars
  /\ UNCHANGED <<pc, heap, tree, genVars, decVars, walkSelf, includeSelf, stopAt,
                 serVars, delVars>>

\* The loop of Walk ends: GetMaxChildrenSubtree returns to main.
SearchReturn ==
  /\ pc = "search"
  /\ Top.collected = <<>>
  /\ frames' = <<>>
  /\ pc' = "searched"
  /\ UNCHANGED <<heap, tree, genVars, decVars, walkSelf, includeSelf, stopAt, visited,
                 serVars, searchVars, delVars>>

\* ----------------------------------------------------------------- Serialize

\* stream << leaf->mChildrenAmount << ":" << leaf->mValue
RecordLine(h, leaf) ==
  IntToStr(h[leaf].mChildrenAmount) \o <<":">> \o IntToStr(h[leaf].mValue)

\* Pretty mode: min(depth, 32) + childIndex tabs, then the depth and ": ".
PrettyPrefix(h, leaf) ==
  LET tabDepth == IF h[leaf].mDepth < MaxTabs THEN h[leaf].mDepth ELSE MaxTabs
  IN  Tabs((tabDepth + h[leaf].mChildIndex) % TwoTo16)
        \o IntToStr(h[leaf].mDepth) \o <<":", " ">>

\* The line the callback of Serialize writes for leaf.
SerializeLine(h, leaf, isPretty) ==
  (IF isPretty THEN PrettyPrefix(h, leaf) ELSE <<>>) \o RecordLine(h, leaf)

\* stream << "..."
Marker == <<".", ".", ".">>

\* if (skipDeep != -1 && leaf->mDepth > skipDeep): skipDeep is a uint16_t, so
\* it never equals the int -1.
DepthExceeded(h, leaf, limit) == limit # -1 /\ h[leaf].mDepth > limit

\* tree->Serialize(stream, limit, isPretty) up to the loop of Walk.
StartSerialize ==
  /\ Ready
  /\ \E limit \in {DefaultSkipDeep} \cup 0..MaxSkipDeep, isPretty \in BOOLEAN :
       skipDeep' = limit /\ pretty' = isPretty
  /\ out' = <<>>
  /\ frames' = <<Frame(tree, WalkQueue(heap, tree, TRUE))>>
  /\ walkSelf' = tree
  /\ includeSelf' = TRUE
  /\ visited' = <<>>
  /\ pc' = "serialize"
  /\ UNCHANGED <<heap, tree, genVars, decVars, stopAt, searchVars, delVars>>

(* main: maxChildrenSubtree->Serialize(std::cout, 6, true). The pointer is  *)
(* dereferenced as it is: a null pointer ends the program.                 *)
PrintSubtree ==
  /\ pc = "searched"
  /\ IF maxChildrenSubtree = 0
     THEN /\ ub' = ub \cup {"null dereference"}
          /\ pc' = "crashed"
          /\ UNCHANGED <<frames, walkSelf, includeSelf, visited, serVars>>
     ELSE /\ skipDeep' = MainSkipDeep
          /\ pretty' = TRUE
          /\ out' = <<>>
          /\ frames' = <<Frame(maxChildrenSubtree, WalkQueue(heap, maxChildrenSubtree, TRUE))>>
          /\ walkSelf' = maxChildrenSubtree
          /\ includeSelf' = TRUE
          /\ visited' = <<>>
          /\ pc' = "serialize"
          /\ ub' = ub
  /\ UNCHANGED <<heap, tree, genVars, decVars, stopAt, searchVars, released>>

\* One iteration of the loop of Walk with the callback of Serialize: the line
\* of the node, then, beyond the depth limit, the marker and the stop.
SerializeVisit ==
  /\ pc = "serialize"
  /\ Top.collected # <<>>
  /\ LET leaf == Head(Top.collected)
         line == SerializeLine(heap, leaf, pretty)
     IN  /\ visited' = Append(visited, leaf)
         /\ out' = IF DepthExceeded(heap, leaf, skipDeep)
                    THEN out \o <<line, Marker>>
                    ELSE Append(out, line)
         /\ IF Broke(DepthExceeded(heap, leaf, skipDeep))
            THEN frames' = <<>> /\ pc' = "serialized"
            ELSE frames' = WithTop(AfterVisit(heap, Top.collected)) /\ pc' = pc
  /\ UNCHANGED <<heap, tree, genVars, decVars, walkSelf, includeSelf, stopAt,
                 skipDeep, pretty, searchVars, delVars>>

\* The loop of Walk ends: Serialize returns.
SerializeReturn ==
  /\ pc = "serialize"
  /\ Top.collected = <<>>
  /\ frames' = <<>>
  /\ pc' = "serialized"
  /\ UNCHANGED <<heap, tree, genVars, decVars, walkSelf, includeSelf, stopAt, visited,
                 serVars, searchVars, delVars>>

\* --------------------------------------------------------------- Deserialize

(* The lines an input text is made of: an empty line, a line without ':',   *)
(* the records of a leaf and of a node with two children, a record whose    *)
(* child count is no number and one whose value is no number.               *)
Lines ==
  { <<>>,
    Marker,
    <<"0", ":", "1", "2">>,
    <<"2", ":", "-", "3">>,
    <<"x", ":", "1">>,
    <<"0", ":", "x">> }

\* The records of an input of records alone: a leaf, and a node that declares
\* N + 1 children.
Records ==
  { <<"0", ":", "1", "2">>,
    IntToStr(N + 1) \o <<":", "0">> }

\* The test for a skipped line that knows the empty line alone.
IsEmptyLine(line) == Len(line) = 0

\* A line Deserialize skips: empty, or without ':'.
IsNoise(line) == Len(line) = 0 \/ FindColon(line) = 0

\* curline.substr(delimiterPos + 1, curline.size() - delimiterPos)
ValueString(line, delimiterPos) == SubSeq(line, delimiterPos + 1, Len(line))

(* The body of the loop of Deserialize on the line read, from the state     *)
(* st = [heap, tree, toPopulate, failed]: a skipped line changes nothing, a *)
(* field the parser rejects throws before the node is created, else the     *)
(* front request's node is created, stored and attached, its requests are   *)
(* queued and the front request popped.                                     *)
DeserializeStep(st, line) ==
  IF IsNoise(line) THEN st
  ELSE
    LET delimiterPos   == FindColon(line)
        childAmount    == stoi(SubSeq(line, 1, delimiterPos - 1))
        value          == stoi(ValueString(line, delimiterPos))
        childrenAmount == childAmount.val % TwoTo16
        leafData       == Head(st.toPopulate)
        leaf           == Len(st.heap) + 1
        created        == Store(Append(st.heap, NewLeaf(value.val)), leafData.output, leaf)
        attached       == IF leafData.parent # 0
                          THEN SetNChild(created, leafData.parent, leafData.childIndex, leaf)
                          ELSE created
    IN  IF ~childAmount.ok \/ ~value.ok
        THEN [st EXCEPT !.failed = TRUE]
        ELSE [heap       |-> attached,
              tree       |-> IF leafData.output.node = 0 THEN leaf ELSE st.tree,
              toPopulate |-> Tail(st.toPopulate \o RequestsFor(leaf, childrenAmount)),
              failed     |-> FALSE]

\* The state DeserializeStep works on.
DecodeState == [heap |-> heap, tree |-> tree, toPopulate |-> toPopulate, failed |-> failed]

\* main: tree = new NTree<int, 5>(); Deserialize(input, &tree, ...) up to its loop.
StartDeserialize(lines) ==
  /\ heap' = Append(heap, DefaultLeaf)
  /\ released' = Append(released, 0)
  /\ tree' = Len(heap) + 1
  /\ toPopulate' = <<RootRequest>>
  /\ stream' = lines
  /\ pos' = 0
  /\ good' = TRUE
  /\ failed' = FALSE
  /\ pc' = "deserialize"
  /\ UNCHANGED <<genVars, walkVars, serVars, searchVars, ub>>

\* A later run of main finds the file tree->Serialize(output) wrote.
LoadWritten ==
  /\ pc = "serialized"
  /\ skipDeep = DefaultSkipDeep /\ ~pretty /\ walkSelf = tree
  /\ StartDeserialize(out)

\* main finds a file ntree.nt of any content.
LoadAny ==
  /\ pc = "load"
  /\ StartDeserialize(<<>>)

(* What std::getline can deliver next: [line, more, eof], more =            *)
(* stream.good() afterwards. The lines of stream are there, each ended by a *)
(* newline (Serialize ends each with std::endl). Behind them the input ends *)
(* (nothing is read, the stream goes bad), or, while fewer than max lines   *)
(* were read, goes on with any line of lines, ended by a newline or by the  *)
(* end of the input.                                                        *)
Reads(lines, max) ==
  IF pos < Len(stream) THEN {[line |-> stream[pos + 1], more |-> TRUE, eof |-> FALSE]}
  ELSE {[line |-> <<>>, more |-> FALSE, eof |-> TRUE]}
       \cup (IF pos >= max THEN {}
             ELSE {[line |-> l, more |-> m, eof |-> FALSE] : l \in lines, m \in BOOLEAN}
                    \ {[line |-> <<>>, more |-> FALSE, eof |-> FALSE]})

\* A loop that goes on as long as requests are queued, whatever the stream says.
LoopRunsWhileQueued(isGood, queue) == queue # <<>>

\* while (stream.good() && toPopulate.size() > 0)
LoopRuns(isGood, queue) == isGood /\ queue # <<>>

\* A caller that catches the parser's exception and lets the loop go on.
AfterLineCaught(hasFailed) == "deserialize"

\* Where the program is after a line: an exception of the parser leaves
\* Deserialize and, caught nowhere in main, ends the program.
AfterLine(hasFailed) == IF hasFailed THEN "terminated" ELSE "deserialize"

\* The request at the front asks for a slot behind the array of its parent.
FrontOutOfRange == toPopulate # <<>> /\ Head(toPopulate).childIndex >= N

(* One iteration of the loop of Deserialize: a line is read and worked off. *)
(* A thrown parser error leaves Deserialize and, uncaught in main, ends the *)
(* program. A node stored in a slot behind the array overruns the parent.   *)
DeserializeLine(lines, max) ==
  /\ pc = "deserialize"
  /\ LoopRuns(good, toPopulate)
  /\ \E rd \in Reads(lines, max) :
       LET next == DeserializeStep(DecodeState, rd.line)
           hit  == FrontOutOfRange /\ ~IsNoise(rd.line) /\ ~next.failed
       IN  /\ stream' = IF pos < Len(stream) \/ rd.eof THEN stream ELSE Append(stream, rd.line)
           /\ pos' = IF rd.eof THEN pos ELSE pos + 1
           /\ good' = rd.more
           /\ tree' = next.tree
           /\ toPopulate' = next.toPopulate
           /\ failed' = next.failed
           /\ released' = [n \in 1..Len(next.heap) |-> IF n <= Len(released) THEN released[n] ELSE 0]
           /\ pc' = AfterLine(next.failed)
           /\ IF hit
              THEN /\ ub' = ub \cup {"slot out of range"}
                   /\ \E victim \in 0..Len(next.heap), junk \in JunkWords :
                        heap' = Overrun(next.heap, victim, junk)
              ELSE /\ ub' = ub
                   /\ heap' = next.heap
  /\ UNCHANGED <<genVars, walkVars, serVars, searchVars>>

\* while (stream.good() && toPopulate.size() > 0) fails: Deserialize returns.
DeserializeReturn ==
  /\ pc = "deserialize"
  /\ ~LoopRuns(good, toPopulate)
  /\ pc' = "deserialized"
  /\ UNCHANGED <<heap, tree, genVars, decVars, walkVars, serVars, searchVars, delVars>>

\* The loop of Deserialize on a text of any lines, nothing written so far.
DecodeText ==
  /\ out = <<>>
  /\ DeserializeLine(Lines, MaxText)

\* The loop of Deserialize on the file Serialize wrote: its lines and no more.
DecodeWritten ==
  /\ out # <<>>
  /\ DeserializeLine({}, 0)

\* tree->Serialize(output), with the default arguments, on the tree that
\* Deserialize built from a text, up to the loop of Walk.
SaveLoaded ==
  /\ pc = "deserialized"
  /\ out = <<>>
  /\ skipDeep' = DefaultSkipDeep
  /\ pretty' = FALSE
  /\ out' = <<>>
  /\ frames' = <<Frame(tree, WalkQueue(heap, tree, TRUE))>>
  /\ walkSelf' = tree
  /\ includeSelf' = TRUE
  /\ visited' = <<>>
  /\ pc' = "serialize"
  /\ UNCHANGED <<heap, tree, genVars, decVars, stopAt, searchVars, delVars>>

\* ----------------------------------------------------------- specifications

\* Trees built by hand or by GenerateTree; the search, the encoder, and the
\* decoder on the file the encoder wrote.
Next ==
  \/ \E value \in Values : NewTree(value)
  \/ \E value \in Values : AttachLeaf(value, MaxNodes)
  \/ StartGenerateTree(MaxLeaves)
  \/ GenerateLeaf
  \/ StartSearch
  \/ SearchVisit
  \/ SearchReturn
  \/ PrintSubtree
  \/ StartSerialize
  \/ SerializeVisit
  \/ SerializeReturn
  \/ LoadWritten
  \/ DeserializeLine({}, 0)
  \/ DeserializeReturn

Spec == Init /\ [][Next]_vars

\* Trees built by hand, of one value; Walk from any node, and the destructor.
NextWalk ==
  \/ NewTree(0)
  \/ AttachLeaf(0, MaxWalked)
  \/ StartWalk
  \/ WalkVisit
  \/ WalkReturn
  \/ DeleteTree
  \/ DestroyVisit
  \/ DestroyReturn

SpecWalk == Init /\ [][NextWalk]_vars

\* GenerateTree alone, for trees of up to MaxGenerated nodes.
NextGen ==
  \/ StartGenerateTree(MaxGenerated)
  \/ GenerateLeaf

SpecGen == Init /\ [][NextGen]_vars

\* main on a file ntree.nt of any text.
NextDec ==
  \/ LoadAny
  \/ DeserializeLine(Lines, MaxLines)
  \/ DeserializeReturn

SpecDec == InitAt("load") /\ [][NextDec]_vars

\* A text of any lines is decoded, the tree built is written and the file
\* written is decoded again.
NextRedo ==
  \/ LoadAny
  \/ DecodeText
  \/ DeserializeReturn
  \/ SaveLoaded
  \/ SerializeVisit
  \/ SerializeReturn
  \/ LoadWritten
  \/ DecodeWritten

SpecRedo == InitAt("load") /\ [][NextRedo]_vars

\* main on a file ntree.nt of records, some declaring more children than N.
NextOverrun ==
  \/ LoadAny
  \/ DeserializeLine(Records, MaxRecords)
  \/ DeserializeReturn

SpecOverrun == InitAt("load") /\ [][NextOverrun]_vars

\* ------------------------------------------------- the tree, for the claims

Min(a, b) == IF a < b THEN a ELSE b

\* The children of node n: its first childCount slots, in index order.
Kids(h, n) == [c \in 1..Min(h[n].mChildrenAmount, N) |-> h[n].mChildren[c]]

RECURSIVE Flatten(_)
Flatten(seqs) == IF seqs = <<>> THEN <<>> ELSE Head(seqs) \o Flatten(Tail(seqs))

\* The nodes of the subtree of n.
RECURSIVE Subtree(_, _)
Subtree(h, n) ==
  {n} \cup UNION {Subtree(h, Kids(h, n)[c]) : c \in 1..Len(Kids(h, n))}

\* The levels below and including level, one after the other.
RECURSIVE LevelsFrom(_, _)
LevelsFrom(h, level) ==
  IF level = <<>> THEN <<>>
  ELSE level \o LevelsFrom(h, Flatten([i \in 1..Len(level) |-> Kids(h, level[i])]))

\* The subtree of root in breadth-first order: level by level, each level in
\* the order of the parents and, under one parent, of the child index.
BfsOrder(h, root) == LevelsFrom(h, <<root>>)

Range(seq) == {seq[i] : i \in 1..Len(seq)}

NoDuplicates(seq) == \A i, j \in 1..Len(seq) : seq[i] = seq[j] => i = j

\* The depth of the deepest node of the subtree of root.
TreeDepth(h, root) ==
  CHOOSE d \in {h[n].mDepth : n \in Subtree(h, root)} :
    \A n \in Subtree(h, root) : h[n].mDepth <= d

\* ------------------------------------------------------------------- claims

(* C1: destroying the root releases every node of the tree exactly once:    *)
(* no node is released twice, none is read after its release, and when the  *)
(* destructor has returned every node of the tree has been released.        *)
C1_TeardownReleasesOnce ==
  /\ \A n \in 1..Len(released) : released[n] <= 1
  /\ "read after release" \notin ub
  /\ pc = "destroyed" => \A n \in Subtree(heap, tree) : released[n] = 1

(* C2: the tree decoded from the file Serialize wrote for a tree has as     *)
(* many nodes as that tree and, node by node in breadth-first order, the    *)
(* same child count and the same value.                                     *)
C2_RoundTrip ==
  pc = "deserialized" =>
    LET original == BfsOrder(heap, walkSelf)
        decoded  == BfsOrder(heap, tree)
    IN  /\ ~failed
        /\ Len(decoded) = Len(original)
        /\ \A i \in 1..Len(original) :
             /\ heap[decoded[i]].mChildrenAmount = heap[original[i]].mChildrenAmount
             /\ heap[decoded[i]].mValue = heap[original[i]].mValue

\* C2's case: a decoded tree of depth 2 with a negative value and a node of
\* two children.
C2_Witness ==
  /\ pc = "deserialized"
  /\ TreeDepth(heap, tree) >= 2
  /\ \E n \in Subtree(heap, tree) : heap[n].mValue < 0
  /\ \E n \in Subtree(heap, tree) : heap[n].mChildrenAmount = 2
  /\ tree # walkSelf

(* C3: the tree GenerateTree returns has at most maxLeaves nodes, and       *)
(* exactly maxLeaves nodes when maxLeaves >= 1.                             *)
C3_NodeCountBound ==
  pc = "generated" =>
    /\ Cardinality(Subtree(heap, tree)) <= maxLeaves
    /\ maxLeaves >= 1 => Cardinality(Subtree(heap, tree)) = maxLeaves

(* C4: Serialize with depth limit L on a tree deeper than L writes the      *)
(* lines of the nodes of depth <= L, all of them, in breadth-first order,   *)
(* then one marker line, and no line of a node of depth > L.                *)
C4_DepthLimitedEncode ==
  (pc = "serialized" /\ TreeDepth(heap, walkSelf) > skipDeep) =>
    LET Shallow(n) == heap[n].mDepth <= skipDeep
        kept       == SelectSeq(BfsOrder(heap, walkSelf), Shallow)
    IN  out = [i \in 1..Len(kept) |-> SerializeLine(heap, kept[i], pretty)] \o <<Marker>>

(* C5: GetMaxChildrenSubtree, called with output 0 and no holder, leaves in *)
(* output the largest child count of the tree and in the holder the first   *)
(* node in breadth-first order that has it: a node of the tree.             *)
C5_MaxChildren ==
  pc = "searched" =>
    LET order == BfsOrder(heap, tree)
    IN  /\ \A n \in Subtree(heap, tree) : heap[n].mChildrenAmount <= maxChildren
        /\ maxChildrenSubtree \in Subtree(heap, tree)
        /\ \E i \in 1..Len(order) :
             /\ order[i] = maxChildrenSubtree
             /\ heap[order[i]].mChildrenAmount = maxChildren
             /\ \A j \in 1..(i - 1) : heap[order[j]].mChildrenAmount < maxChildren

\* The number of nodes the outermost Walk has to visit.
WalkSize == Cardinality(Subtree(heap, walkSelf)) - (IF includeSelf THEN 0 ELSE 1)

(* C6: Walk with includeSelf = true and a callback that never stops calls   *)
(* the callback on every node of the subtree exactly once and returns: no   *)
(* node is visited or queued twice, only nodes of the subtree are, and at   *)
(* the return every node of the subtree has been visited.                   *)
C6_TraversalComplete ==
  (pc \in {"walk", "walked"} /\ includeSelf /\ stopAt = 0) =>
    LET pending == IF frames = <<>> THEN <<>> ELSE Top.collected
    IN  /\ NoDuplicates(visited \o pending)
        /\ Range(visited \o pending) \subseteq Subtree(heap, walkSelf)
        /\ pc = "walked" => Range(visited) = Subtree(heap, walkSelf)

\* C6's case: a finished walk over a whole tree of MaxNodes nodes and depth 2
\* or more, begun at its root.
C6_Witness ==
  /\ pc = "walked" /\ includeSelf /\ stopAt = 0
  /\ walkSelf = tree
  /\ Len(visited) = MaxNodes
  /\ TreeDepth(heap, tree) >= 2

(* C7: when the callback returns true on its K-th call, Walk makes exactly  *)
(* K calls of it; a K beyond the nodes to visit never comes and all are     *)
(* visited.                                                                 *)
C7_EarlyStop ==
  (pc = "walked" /\ stopAt >= 1) => Len(visited) = Min(stopAt, WalkSize)

\* C7's case: a walk stopped at its second call with nodes left in the queue.
C7_Witness ==
  /\ pc = "walked" /\ stopAt = 2
  /\ Len(visited) = 2
  /\ WalkSize >= 4

\* Node n is held by slot c (from 0) of node p.
Holds(h, p, c, n) == c < N /\ c < h[p].mChildrenAmount /\ h[p].mChildren[c + 1] = n

C9_Capacity ==
  /\ \A n \in 1..Len(heap) : heap[n].mChildrenAmount <= N
  /\ \A i \in 1..Len(toPopulate) : toPopulate[i].childIndex < N
  /\ \A i \in 1..Len(toGenerate) : toGenerate[i].childIndex < N

\* A line that holds a ':'.
HasColon(line) == \E i \in 1..Len(line) : line[i] = ":"

\* Deserialize run from the state st over lines, as long as its loop runs.
RECURSIVE DecodeAll(_, _)
DecodeAll(st, lines) ==
  IF lines = <<>> \/ st.toPopulate = <<>> \/ st.failed THEN st
  ELSE DecodeAll(DeserializeStep(st, Head(lines)), Tail(lines))

\* The state Deserialize starts in when main calls it.
DecodeStart ==
  [heap |-> <<DefaultLeaf>>, tree |-> 1, toPopulate |-> <<RootRequest>>, failed |-> FALSE]

(* C10: the empty lines and the lines without ':' among the lines read do   *)
(* not matter: what Deserialize has built is what it builds from the lines  *)
(* read with those lines taken out.                                         *)
C10_DecodeTolerance ==
  pc \in {"deserialize", "deserialized", "terminated"} =>
    DecodeState = DecodeAll(DecodeStart, SelectSeq(stream, HasColon))

\* C10's case: a decoded tree of three nodes or more from a text with an
\* empty line and a line without ':' between its records.
C10_Witness ==
  /\ pc = "deserialized" /\ ~failed
  /\ Cardinality(Subtree(heap, tree)) >= 3
  /\ \E i, j, k \in 1..Len(stream) :
       /\ i < j /\ j < k
       /\ HasColon(stream[i]) /\ HasColon(stream[k])
       /\ stream[j] = <<>>
  /\ \E i, j, k \in 1..Len(stream) :
       /\ i < j /\ j < k
       /\ HasColon(stream[i]) /\ HasColon(stream[k])
       /\ stream[j] = Marker

\* The children of node n fill its slots from index 0 without a gap: each
\* index below the child count is a slot that holds a node, the slots from
\* the child count on are nullptr.
Contiguous(h, n) ==
  /\ \A c \in 0..(h[n].mChildrenAmount - 1) : c < N /\ h[n].mChildren[c + 1] # 0
  /\ \A c \in 0..(N - 1) : c >= h[n].mChildrenAmount => h[n].mChildren[c + 1] = 0

\* A step leaves the slots and the child count of node n alone, or writes the
\* node created in this step to the empty slot whose index is the child count
\* and raises the count by 1.
AttachedInOrder(n) ==
  \/ /\ heap'[n].mChildren = heap[n].mChildren
     /\ heap'[n].mChildrenAmount = heap[n].mChildrenAmount
  \/ LET index == heap[n].mChildrenAmount
     IN  /\ index < N
         /\ heap[n].mChildren[index + 1] = 0
         /\ Len(heap') = Len(heap) + 1
         /\ heap'[n].mChildren = [heap[n].mChildren EXCEPT ![index + 1] = Len(heap')]
         /\ heap'[n].mChildrenAmount = index + 1
         /\ heap'[Len(heap')].mChildIndex = index

(* C11: in every state of GenerateTree and Deserialize, also on an input    *)
(* that ends early, the slots of index < child count of every node hold an  *)
(* attached child and the slots of index >= child count are empty; every    *)
(* step attaches a child at the index following the last one attached, to a *)
(* slot that was empty, so that no slot is written a second time.           *)
C11_SlotContiguity ==
  /\ [](\A n \in 1..Len(heap) : Contiguous(heap, n))
  /\ [][\A n \in 1..Len(heap) : AttachedInOrder(n)]_vars

(* C12: Walk with includeSelf = false never calls the callback on the node  *)
(* it was called on and, with a callback that never stops, calls it on      *)
(* every other node of the subtree exactly once: no node is visited or      *)
(* queued twice, and at the return the visited nodes are the subtree        *)
(* without its root.                                                        *)
C12_WalkWithoutSelf ==
  (pc \in {"walk", "walked"} /\ ~includeSelf) =>
    LET pending == IF frames = <<>> THEN <<>> ELSE Top.collected
        below   == Subtree(heap, walkSelf) \ {walkSelf}
    IN  /\ walkSelf \notin Range(visited \o pending)
        /\ stopAt = 0 =>
             /\ NoDuplicates(visited \o pending)
             /\ Range(visited \o pending) \subseteq below
             /\ pc = "walked" => Range(visited) = below

\* C12's case: a finished walk without the root over a whole tree of MaxWalked
\* nodes and depth 2 or more.
C12_Witness ==
  /\ pc = "walked" /\ ~includeSelf /\ stopAt = 0
  /\ walkSelf = tree
  /\ Len(visited) = MaxWalked - 1
  /\ TreeDepth(heap, tree) >= 2

\* The iterations the loop of Deserialize can still make on a text of up to
\* MaxLines lines: one per line not yet read, and the read that finds the end.
StepsLeft == (MaxLines - pos) + (IF good THEN 1 ELSE 0)

\* The number of lines with a ':' among the lines read.
RecordsRead == Len(SelectSeq(SubSeq(stream, 1, pos), HasColon))

\* The request r has created no node: the pointer it is to fill is as it was
\* before the call: the root handle on main's node, the slot nullptr.
Unserved(r) ==
  IF r.output.node = 0 THEN tree = 1 /\ heap[1] = DefaultLeaf
  ELSE heap[r.parent].mChildren[r.childIndex + 1] = 0

(* C13: Deserialize ends on every finite text: each turn of its loop reads  *)
(* a line or finds the end of the text, and a turn is made only while the   *)
(* stream is good and a request is queued: no line is read once the queue   *)
(* is empty, and it returns in the very next step once either fails. Each   *)
(* record read has created one node, so the requests left in the queue      *)
(* when the text ends first have created none.                              *)
C13_DecodeStops ==
  /\ [](pc = "deserialize" => ENABLED (DeserializeLine(Lines, MaxLines) \/ DeserializeReturn))
  /\ [][pc = "deserialize" /\ pc' # "deserialized" =>
          /\ good /\ toPopulate # <<>>
          /\ StepsLeft' < StepsLeft /\ StepsLeft' >= 0]_vars
  /\ [][pc = "deserialize" /\ ~(good /\ toPopulate # <<>>) =>
          /\ pc' = "deserialized"
          /\ UNCHANGED <<heap, tree, decVars>>]_vars
  /\ [](pc \in {"deserialize", "deserialized", "terminated"} =>
          /\ Len(heap) = 1 + RecordsRead - (IF failed THEN 1 ELSE 0)
          /\ \A i \in 1..Len(toPopulate) : Unserved(toPopulate[i]))

\* C13's case: Deserialize has returned because the text ended, with three
\* nodes built and requests left in the queue.
C13_Witness ==
  /\ pc = "deserialized" /\ ~good
  /\ toPopulate # <<>>
  /\ Len(heap) >= 4

\* The parser rejects the child-count field or the value field of the line.
ParseFails(line) ==
  /\ HasColon(line)
  /\ \/ ~stoi(SubSeq(line, 1, FindColon(line) - 1)).ok
     \/ ~stoi(ValueString(line, FindColon(line))).ok

(* C14: the step that reads a line with a field the parser rejects ends     *)
(* Deserialize with the failure and leaves the nodes, the root handle and   *)
(* the queue as they were: no node is created or attached for the line. A   *)
(* failure comes from such a line alone, and after it nothing happens any   *)
(* more: no further line is read.                                           *)
C14_ParseFailureAborts ==
  /\ [][(pc = "deserialize" /\ pos' = pos + 1 /\ ParseFails(stream'[pos'])) =>
          /\ failed' /\ pc' = "terminated"
          /\ UNCHANGED <<heap, tree, toPopulate>>]_vars
  /\ [][failed' => (pos' = pos + 1 /\ ParseFails(stream'[pos']))]_vars
  /\ [](failed => pc = "terminated" /\ ~ENABLED NextDec)

\* C14's case: the program has ended on a record whose value field is no
\* number, read after the records of three nodes.
C14_Witness ==
  /\ pc = "terminated" /\ failed
  /\ stream[pos] = <<"0", ":", "x">>
  /\ Len(heap) >= 4

\* The depth of the node the request r asks for.
RequestDepth(h, r) == IF r.parent = 0 THEN 0 ELSE h[r.parent].mDepth + 1

\* The node whose slot holds n; 0 for a node no slot holds.
ParentOf(h, n) ==
  IF \E p \in 1..Len(h) : \E c \in 0..(N - 1) : Holds(h, p, c, n)
  THEN CHOOSE p \in 1..Len(h) : \E c \in 0..(N - 1) : Holds(h, p, c, n)
  ELSE 0

\* Of the children of the nodes of one depth, the child of the parent created
\* earlier, or of the smaller index under one parent, was created first. Nodes
\* are numbered in the order of their creation.
CreatedInLevelOrder(h) ==
  \A p, q \in 1..Len(h) :
    (h[p].mDepth = h[q].mDepth /\ p <= q) =>
      \A c \in 1..Min(h[p].mChildrenAmount, N), d \in 1..Min(h[q].mChildrenAmount, N) :
        (p < q \/ c < d) => h[p].mChildren[c] < h[q].mChildren[d]

(* C15: GenerateTree serves its requests in the order they were queued:     *)
(* each node created fills the request at the front, and new requests go    *)
(* to the back. So the pending requests are in order of depth, no node is  *)
(* deeper than the first and so than any of them, and of two nodes of one   *)
(* depth the one whose parent was created earlier, or that has the smaller  *)
(* child index under one parent, was created first.                         *)
C15_GenerationOrder ==
  /\ [][(pc = "generate" /\ Len(heap') = Len(heap) + 1) =>
          LET leafData == Head(toGenerate)
              leaf     == Len(heap')
          IN  /\ heap'[leaf].mDepth = RequestDepth(heap, leafData)
              /\ heap'[leaf].mChildIndex = leafData.childIndex
              /\ leafData.parent # 0 =>
                   Holds(heap', leafData.parent, leafData.childIndex, leaf)
              /\ \/ toGenerate' = toGenerate
                 \/ \E k \in 0..N : toGenerate' = Tail(toGenerate) \o RequestsFor(leaf, k)]_vars
  /\ [](pc \in {"generate", "generated"} =>
          /\ \A i \in 1..(Len(toGenerate) - 1) :
               RequestDepth(heap, toGenerate[i]) <= RequestDepth(heap, toGenerate[i + 1])
          /\ toGenerate # <<>> =>
               \A n \in 1..Len(heap) : heap[n].mDepth <= RequestDepth(heap, Head(toGenerate))
          /\ CreatedInLevelOrder(heap))

\* C15's case: a generated tree with two nodes of depth 2 under different
\* parents.
C15_Witness ==
  /\ pc = "generated"
  /\ \E a, b \in 1..Len(heap) :
       /\ heap[a].mDepth = 2 /\ heap[b].mDepth = 2
       /\ ParentOf(heap, a) # ParentOf(heap, b)

\* The place of node n in the sequence seq; 0 if it is not in it.
PlaceIn(seq, n) ==
  IF \E i \in 1..Len(seq) : seq[i] = n THEN CHOOSE i \in 1..Len(seq) : seq[i] = n ELSE 0

(* C16: with a callback that never stops, the nodes Walk has visited so far *)
(* are the first nodes of the subtree in breadth-first order (without the   *)
(* starting node if includeSelf is false): their depth never falls, the     *)
(* children of one node come in increasing child index, and when a comes    *)
(* before b at one depth every visited child of a comes before every        *)
(* visited child of b.                                                      *)
C16_WalkOrder ==
  (pc \in {"walk", "walked"} /\ stopAt = 0) =>
    LET order    == BfsOrder(heap, walkSelf)
        expected == IF includeSelf THEN order ELSE Tail(order)
        depth(i) == heap[visited[i]].mDepth
    IN  /\ Len(visited) <= Len(expected)
        /\ visited = SubSeq(expected, 1, Len(visited))
        /\ \A i, j \in 1..Len(visited) :
             i < j =>
               /\ depth(i) <= depth(j)
               /\ (visited[i] # walkSelf /\ visited[j] # walkSelf
                   /\ ParentOf(heap, visited[i]) = ParentOf(heap, visited[j])) =>
                    heap[visited[i]].mChildIndex < heap[visited[j]].mChildIndex
               /\ depth(i) = depth(j) =>
                    \A c \in 1..Len(Kids(heap, visited[i])), d \in 1..Len(Kids(heap, visited[j])) :
                      LET k == PlaceIn(visited, Kids(heap, visited[i])[c])
                          l == PlaceIn(visited, Kids(heap, visited[j])[d])
                      IN  l # 0 => (k # 0 /\ k < l)

\* C16's case: a finished walk over a whole tree in which two nodes of one
\* depth have a child each, the child of the first created after the child of
\* the second.
C16_Witness ==
  /\ pc = "walked" /\ stopAt = 0 /\ includeSelf /\ walkSelf = tree
  /\ \E i, j \in 1..Len(visited) :
       /\ i < j
       /\ heap[visited[i]].mDepth = heap[visited[j]].mDepth
       /\ heap[visited[i]].mChildrenAmount >= 1
       /\ heap[visited[j]].mChildrenAmount >= 1
       /\ Kids(heap, visited[i])[1] > Kids(heap, visited[j])[1]

(* C17: in the tree GenerateTree returns for maxLeaves >= 1 the node        *)
(* created last has no child; its parent has 1 to 5 children; every other   *)
(* node has no child or 2 to 5 children; and every node before that parent  *)
(* in breadth-first order has 2 to 5 children.                              *)
C17_GeneratedShape ==
  (pc = "generated" /\ maxLeaves >= 1) =>
    LET last   == Len(heap)
        parent == ParentOf(heap, last)
        order  == BfsOrder(heap, tree)
        full   == MinChildren..(MinChildren + ChildSpread - 1)
    IN  /\ heap[last].mChildrenAmount = 0
        /\ parent # 0 => heap[parent].mChildrenAmount \in 1..(MinChildren + ChildSpread - 1)
        /\ \A n \in Subtree(heap, tree) \ {parent} : heap[n].mChildrenAmount \in {0} \cup full
        /\ \A i, j \in 1..Len(order) :
             (order[j] = parent /\ i < j) => heap[order[i]].mChildrenAmount \in full

\* C17's case: a generated tree whose last node is the only child of its
\* parent, with a node of two or more children before that parent and a node
\* without children behind it.
C17_Witness ==
  /\ pc = "generated" /\ maxLeaves >= 1
  /\ LET parent == ParentOf(heap, Len(heap))
     IN  /\ parent # 0 /\ parent # tree
         /\ heap[parent].mChildrenAmount = 1
         /\ \E n \in 1..Len(heap) :
              n > parent /\ n < Len(heap) /\ heap[n].mDepth = heap[parent].mDepth
              /\ heap[n].mChildrenAmount = 0

\* The number of slots of node n that hold a node.
Attached(h, n) == Cardinality({c \in 1..N : h[n].mChildren[c] # 0})

\* The child count the k-th record read declares.
Declared(k) ==
  LET record == SelectSeq(stream, HasColon)[k]
  IN  stoi(SubSeq(record, 1, FindColon(record) - 1)).val % TwoTo16

\* The subtrees of a and b are the same tree: node by node in breadth-first
\* order the same value, child count, depth and child index.
SameTree(h, a, b) ==
  LET left  == BfsOrder(h, a)
      right == BfsOrder(h, b)
  IN  /\ Len(left) = Len(right)
      /\ \A i \in 1..Len(left) :
           /\ h[left[i]].mValue = h[right[i]].mValue
           /\ h[left[i]].mChildrenAmount = h[right[i]].mChildrenAmount
           /\ h[left[i]].mDepth = h[right[i]].mDepth
           /\ h[left[i]].mChildIndex = h[right[i]].mChildIndex

(* C18: when Deserialize has returned from a text, also one that ended      *)
(* before every request was served, the child count of every node is the    *)
(* number of children attached to it, at most the count its record          *)
(* declares; and the tree decoded from what Serialize writes for that tree  *)
(* is the same tree.                                                        *)
C18_DecodeNormalises ==
  /\ (pc = "deserialized" /\ out = <<>>) =>
       /\ \A n \in 1..Len(heap) : heap[n].mChildrenAmount = Attached(heap, n)
       /\ \A n \in 2..Len(heap) : heap[n].mChildrenAmount <= Declared(n - 1)
  /\ (pc = "deserialized" /\ out # <<>>) =>
       /\ ~failed
       /\ tree # walkSelf
       /\ SameTree(heap, walkSelf, tree)

\* C18's case: the text ended with requests pending, a node of the tree built
\* has one child where its record declares two (no record of Lines declares
\* one), and the file written for the tree has been decoded again.
C18_Witness ==
  /\ pc = "deserialized" /\ out # <<>>
  /\ Cardinality(Subtree(heap, walkSelf)) >= 3
  /\ \E n \in Subtree(heap, walkSelf) : heap[n].mChildrenAmount = 1

\* A record both fields of which the parser accepts.
IsValidRecord(line) == HasColon(line) /\ ~ParseFails(line)

\* The number of valid records among the lines read.
ValidRead == Len(SelectSeq(SubSeq(stream, 1, pos), IsValidRecord))

(* C19: as long as Deserialize has read no valid record (nothing, empty     *)
(* lines, lines without ':') it has created no node and the root handle     *)
(* is the one main set: the default-constructed node, as it was. Once a     *)
(* valid record is read the root handle is a new node, of depth 0. When     *)
(* Deserialize returns it has read every record up to the root's, so this   *)
(* then holds of the stream as a whole.                                     *)
C19_NoRecordNoWrite ==
  pc \in {"deserialize", "deserialized", "terminated"} =>
    /\ ValidRead = 0 =>
         /\ Len(heap) = 1 /\ tree = 1
         /\ heap[1].mValue = 0 /\ heap[1].mDepth = 0 /\ heap[1].mChildIndex = 0
         /\ heap[1].mChildrenAmount = 0 /\ Attached(heap, 1) = 0
    /\ ValidRead >= 1 =>
         /\ tree = 2 /\ Len(heap) >= 2
         /\ heap[tree].mDepth = 0
         /\ heap[1] = DefaultLeaf
    /\ (pc = "deserialized" /\ ValidRead = 0) =>
         /\ ~good /\ pos = Len(stream)
         /\ \A i \in 1..Len(stream) : IsNoise(stream[i])

\* C19's case: Deserialize has returned from a text of an empty line and a
\* line without ':' and nothing else.
C19_Witness ==
  /\ pc = "deserialized"
  /\ tree = 1
  /\ \E i, j \in 1..Len(stream) : stream[i] = <<>> /\ stream[j] = Marker

====
